---- MODULE Spec2Model ----
(***************************************************************************)
(* Model of lib/Runner.js: the Runner of lambda-shearer.                    *)
(*                                                                         *)
(* run() reads the allocated memory of a Lambda function, sweeps the       *)
(* memory sizes of `steps`, runs one cycle of `repeats` invocations per    *)
(* size (through bluebird's Promise.map with a concurrency limit), reduces *)
(* the durations to a report and restores the memory size in a finally     *)
(* handler.  The model has one action per asynchronous completion (an AWS  *)
(* call that settles, a timer that fires); everything the handlers of that *)
(* completion do synchronously is part of the action.                      *)
(***************************************************************************)
EXTENDS Integers, Sequences, FiniteSets, TLC

VARIABLES
    steps,              \* this.steps: memory sizes of the sweep
    repeats,            \* this.repeats
    concurrency,        \* this.concurrency
    warmup,             \* this.warmup
    delay,              \* this.delay (ms)
    pc,                 \* where run() is suspended
    stepIdx,            \* position of BPromise.reduce in this.steps
    originalMemorySize, \* value the getFunctionConfiguration call resolved to
    item,               \* per key of BPromise.map: state of its mapper promise
    values,             \* per key of BPromise.map: the mapper's result
    queue,              \* BPromise.map's queue of keys waiting for a slot
    inFlight,           \* BPromise.map's count of pending mapper promises
    samples,            \* the cycleResult arrays handed to _parseCycleResult
    report,             \* the accumulator of BPromise.reduce
    sweepError,         \* rejection reason of the BPromise.reduce promise
    outcome,            \* settlement of the promise run() returned
    log                 \* adapter calls, completions, timers and emitted events

vars == <<steps, repeats, concurrency, warmup, delay, pc, stepIdx,
          originalMemorySize, item, values, queue, inFlight, samples, report,
          sweepError, outcome, log>>

config == <<steps, repeats, concurrency, warmup, delay>>

----------------------------------------------------------------------------
(* Bounds of the model and the inputs drawn at Init.                        *)

MaxSteps == 2
MaxRepeats == 3
MaxConcurrency == 2
\* most timed invocations of one run: Len(steps) * repeats
MaxInvocations == 4

\* longest sample reduced on its own
MaxSamples == 4

MemorySizes == {128, 256}
OriginalSizes == {128, 512}
Durations == {100}
Delays == {10}
SampleValues == {0, 1, 2, 5}

\* null of JavaScript, as returned by _invokeLambda when the log has no REPORT
NULL == -1

RECURSIVE SeqsUpTo(_, _)
SeqsUpTo(S, n) ==
    IF n = 0 THEN {<<>>}
    ELSE LET shorter == SeqsUpTo(S, n - 1)
         IN  shorter \cup {Append(s, x) : s \in {t \in shorter : Len(t) = n - 1}, x \in S}

StepSeqs == SeqsUpTo(MemorySizes, MaxSteps)

----------------------------------------------------------------------------
(* Events of the log and errors.                                            *)

Ev(k, n, a) == [k |-> k, n |-> n, a |-> a]

NoError == [kind |-> "none", at |-> 0]
Err(kind, at) == [kind |-> kind, at |-> at]

----------------------------------------------------------------------------
(* The statistics of a cycle: Runner._getAverage and                        *)
(* Runner._parseCycleResult, with the arithmetic of JavaScript: null        *)
(* converts to the number 0 in +, Math.min, Math.max and in the comparator  *)
(* of the percentile package.                                               *)

PERCENTILES == <<50, 66, 75, 80, 90, 95, 98, 99>>

\* Number(x) for x a duration or null
Num(x) == IF x = NULL THEN 0 ELSE x

RECURSIVE SumSeq(_)
SumSeq(s) == IF s = <<>> THEN 0 ELSE Num(Head(s)) + SumSeq(Tail(s))

RECURSIVE MathMin(_)
MathMin(s) ==
    IF Len(s) = 1 THEN Num(s[1])
    ELSE LET m == MathMin(Tail(s)) IN IF Num(Head(s)) < m THEN Num(Head(s)) ELSE m

RECURSIVE MathMax(_)
MathMax(s) ==
    IF Len(s) = 1 THEN Num(s[1])
    ELSE LET m == MathMax(Tail(s)) IN IF Num(Head(s)) > m THEN Num(Head(s)) ELSE m

\* a rounding that truncates
MathRoundDown(n, d) == n \div d

\* Math.round of a non-negative quotient n/d: round half up
MathRound(n, d) == (2 * n + d) \div (2 * d)

_getAverage(durations) == MathRound(SumSeq(durations), Len(durations))

\* list.slice().sort((a, b) => Number(a) - Number(b)), as an insertion sort
RECURSIVE InsertSorted(_, _)
InsertSorted(x, s) ==
    IF s = <<>> THEN <<x>>
    ELSE IF Num(x) < Num(Head(s)) THEN <<x>> \o s
    ELSE <<Head(s)>> \o InsertSorted(x, Tail(s))

\* a percentile that reads the list as it comes
NotSorted(s) == s

RECURSIVE SortAsc(_)
SortAsc(s) == IF s = <<>> THEN <<>> ELSE InsertSorted(Head(s), SortAsc(Tail(s)))

\* percentile(p, list) of the percentile package: nearest rank,
\* kIndex = Math.ceil(list.length * (p / 100)) - 1 (1-based here)
percentile(p, list) ==
    LET sorted == SortAsc(list)
        k      == (Len(list) * p + 99) \div 100
    IN  IF p = 0 THEN sorted[1] ELSE sorted[k]

_parseCycleResult(cycleResult) ==
    [min |-> MathMin(cycleResult),
     max |-> MathMax(cycleResult),
     avg |-> _getAverage(cycleResult),
     percentiles |-> [j \in 1..Len(PERCENTILES) |-> percentile(PERCENTILES[j], cycleResult)]]

\* Object.assign(report, { [memoryStep]: parsedResult })
ObjectAssign(rep, memoryStep, parsedResult) ==
    [m \in (DOMAIN rep) \cup {memoryStep} |->
        IF m = memoryStep THEN parsedResult ELSE rep[m]]

\* the keys of a set of integer-like property names in ascending order
RECURSIVE KeysAscending(_)
KeysAscending(S) ==
    IF S = {} THEN <<>>
    ELSE LET m == CHOOSE x \in S : \A y \in S : x <= y
         IN  <<m>> \o KeysAscending(S \ {m})

\* the order in which the report built by Object.assign on {} enumerates its
\* entries: memory sizes are integer-like property names, which an object
\* enumerates in ascending numeric order whatever the order of insertion
ObjectKeys(rep) == KeysAscending(DOMAIN rep)

----------------------------------------------------------------------------
(* Runner._cycle and Runner.run.                                            *)

\* the keys Array.from(Array(count)).keys() hands to BPromise.map
Keys(count) == 0 .. (count - 1)

\* the mapper passing the key itself
InvokeIndexSameAsKey(i) == i

\* this._invokeLambda(i + 1) in the mapper
InvokeIndex(i) == i + 1

\* if (this.warmup && this.concurrency === 1)
DoesWarmup == warmup /\ concurrency = 1

\* .delay(this.warmup ? this.delay : 0)
CycleDelay == IF warmup THEN delay ELSE 0

\* BPromise.delay(this.concurrency === 1 ? this.delay : 0)
MapperDelay == IF concurrency = 1 THEN delay ELSE 0

\* a limit that is off by one
LimitOffByOne == concurrency + 1

\* { concurrency: this.concurrency }
Limit == concurrency

\* a tap that emits the index instead of the duration
InvokeEventsEmittingIndex(i, duration) ==
    <<Ev("ret", "invoke", InvokeIndex(i)), Ev("emit", "invoke", InvokeIndex(i))>>

\* _invokeLambda(i + 1) resolved and .tap() emits 'invoke' with its value
InvokeEvents(i, duration) ==
    <<Ev("ret", "invoke", InvokeIndex(i)), Ev("emit", "invoke", duration)>>

\* a finally handler that restores without emitting 'finish'
FinallyWithoutFinish(memorySize) == <<Ev("call", "setConfiguration", memorySize)>>

\* a finally handler that forgets to restore
FinallyWithoutRestore(memorySize) == <<Ev("emit", "finish", 0)>>

\* the finally handler of run(): emit 'finish', then call _setAllocatedMemory
FinallyEvents(memorySize) ==
    <<Ev("emit", "finish", 0), Ev("call", "setConfiguration", memorySize)>>

\* BPromise.map reached key i while iterating its input: the mapper is called
\* (its promise starts with a timer) unless `Limit` mapper promises are pending,
\* in which case the key is pushed on the queue
StartsAtOnce(i) == i < Limit

\* a count that takes a dispatched invocation for a resolved one
TotalResolvedCountsInFlight(it) ==
    Cardinality({i \in DOMAIN it : it[i] \in {"done", "inflight"}})

\* a count that is one short
TotalResolvedOneShort(it) == Cardinality({i \in DOMAIN it : it[i] = "done"}) - 1

\* number of keys whose mapper promise fulfilled (_totalResolved of the map)
TotalResolved(it) == Cardinality({i \in DOMAIN it : it[i] = "done"})

\* the invocations of the adapter that are dispatched and not completed
InFlightInvocations ==
    Cardinality({i \in DOMAIN item : item[i] = "inflight"})
        + (IF pc = "warming" THEN 1 ELSE 0)

Init ==
    /\ steps \in StepSeqs
    /\ repeats \in {r \in 1 .. MaxRepeats : Len(steps) * r <= MaxInvocations}
    /\ concurrency \in 1 .. MaxConcurrency
    /\ warmup \in BOOLEAN
    /\ delay \in Delays
    /\ pc = "idle"
    /\ stepIdx = 0
    /\ originalMemorySize = 0
    /\ item = [i \in Keys(repeats) |-> "idle"]
    /\ values = [i \in Keys(repeats) |-> NULL]
    /\ queue = <<>>
    /\ inFlight = 0
    /\ samples = <<>>
    /\ report = <<>>
    /\ sweepError = NoError
    /\ outcome = [status |-> "pending", error |-> NoError]
    /\ log = <<>>

\* run(): this._getAllocatedMemory() is called
Run ==
    /\ pc = "idle"
    /\ pc' = "getting"
    /\ log' = Append(log, Ev("call", "getConfiguration", 0))
    /\ UNCHANGED <<config, stepIdx, originalMemorySize, item, values, queue,
                   inFlight, samples, report, sweepError, outcome>>

\* getFunctionConfiguration resolved: emit 'start', BPromise.reduce calls the
\* reducer for the first step, or resolves at once when there is no step
GetResolved(memorySize) ==
    /\ pc = "getting"
    /\ originalMemorySize' = memorySize
    /\ LET log1 == log \o <<Ev("ret", "getConfiguration", memorySize),
                            Ev("emit", "start", memorySize)>>
       IN  IF steps = <<>>
           THEN /\ log' = log1 \o FinallyEvents(memorySize)
                /\ pc' = "restoring"
                /\ UNCHANGED stepIdx
           ELSE /\ log' = Append(log1, Ev("call", "setConfiguration", steps[1]))
                /\ pc' = "setting"
                /\ stepIdx' = 1
    /\ UNCHANGED <<config, item, values, queue, inFlight, samples, report,
                   sweepError, outcome>>

\* getFunctionConfiguration rejected: run() rejects, no handler was attached
GetRejected ==
    /\ pc = "getting"
    /\ log' = Append(log, Ev("fail", "getConfiguration", 0))
    /\ outcome' = [status |-> "rejected",
                   error |-> Err("GetConfigurationError", Len(log) + 1)]
    /\ pc' = "done"
    /\ UNCHANGED <<config, stepIdx, originalMemorySize, item, values, queue,
                   inFlight, samples, report, sweepError>>

\* updateFunctionConfiguration of a step resolved: emit 'step', enter _cycle
SetResolved ==
    /\ pc = "setting"
    /\ LET log1 == log \o <<Ev("ret", "setConfiguration", steps[stepIdx]),
                            Ev("emit", "step", steps[stepIdx])>>
       IN  IF DoesWarmup
           THEN /\ log' = log1 \o <<Ev("emit", "warmup", 0),
                                    Ev("call", "invoke", 0)>>
                /\ pc' = "warming"
           ELSE /\ log' = log1
                /\ pc' = "cycleDelay"
    /\ UNCHANGED <<config, stepIdx, originalMemorySize, item, values, queue,
                   inFlight, samples, report, sweepError, outcome>>

\* updateFunctionConfiguration of a step rejected: the reduce rejects and the
\* finally handler runs
SetRejected ==
    /\ pc = "setting"
    /\ sweepError' = Err("ConfigurationUpdateError", Len(log) + 1)
    /\ log' = Append(log, Ev("fail", "setConfiguration", steps[stepIdx]))
                  \o FinallyEvents(originalMemorySize)
    /\ pc' = "restoring"
    /\ UNCHANGED <<config, stepIdx, originalMemorySize, item, values, queue,
                   inFlight, samples, report, outcome>>

\* the warm-up invocation resolved (its value is dropped): the timer of
\* .delay() starts
WarmupResolved(duration) ==
    /\ pc = "warming"
    /\ log' = Append(log, Ev("ret", "invoke", 0))
    /\ pc' = "cycleDelay"
    /\ UNCHANGED <<config, stepIdx, originalMemorySize, item, values, queue,
                   inFlight, samples, report, sweepError, outcome>>

\* the warm-up invocation rejected: .delay() and the map are skipped
WarmupRejected ==
    /\ pc = "warming"
    /\ sweepError' = Err("InvocationError", Len(log) + 1)
    /\ log' = Append(log, Ev("fail", "invoke", 0))
                  \o FinallyEvents(originalMemorySize)
    /\ pc' = "restoring"
    /\ UNCHANGED <<config, stepIdx, originalMemorySize, item, values, queue,
                   inFlight, samples, report, outcome>>

\* the timer of .delay() fired: BPromise.map iterates the keys in order
CycleDelayElapsed ==
    /\ pc = "cycleDelay"
    /\ log' = Append(log, Ev("delay", "cycle", CycleDelay))
    /\ item' = [i \in Keys(repeats) |-> IF StartsAtOnce(i) THEN "delay" ELSE "queued"]
    /\ values' = [i \in Keys(repeats) |-> NULL]
    /\ queue' = SelectSeq([j \in 1 .. repeats |-> j - 1], LAMBDA i : ~StartsAtOnce(i))
    /\ inFlight' = Cardinality({i \in Keys(repeats) : StartsAtOnce(i)})
    /\ pc' = "mapping"
    /\ UNCHANGED <<config, stepIdx, originalMemorySize, samples, report,
                   sweepError, outcome>>

\* the timer of a mapper fired: the invocation is dispatched
MapperDelayElapsed(i) ==
    /\ item[i] = "delay"
    /\ item' = [item EXCEPT ![i] = "inflight"]
    /\ log' = log \o <<Ev("delay", "invoke", MapperDelay),
                       Ev("call", "invoke", InvokeIndex(i))>>
    /\ UNCHANGED <<config, pc, stepIdx, originalMemorySize, values, queue,
                   inFlight, samples, report, sweepError, outcome>>

\* a timed invocation resolved with a duration or null: 'invoke' is emitted;
\* while the map is pending it records the value, frees the slot, pops the
\* last key of the queue and calls its mapper, and once every key has resolved
\* the cycle result is parsed, 'result' emitted and the reduce goes on
InvokeResolved(i, duration) ==
    /\ item[i] = "inflight"
    /\ LET log1  == log \o InvokeEvents(i, duration)
           drain == queue # <<>> /\ inFlight - 1 < Limit
           next  == queue[Len(queue)]
           item1 == [item EXCEPT ![i] = "done"]
           item2 == IF drain THEN [item1 EXCEPT ![next] = "delay"] ELSE item1
           values1 == [values EXCEPT ![i] = duration]
           cycleResult  == [j \in 1 .. repeats |-> values1[j - 1]]
           parsedResult == _parseCycleResult(cycleResult)
           log2  == Append(log1, Ev("emit", "result", stepIdx))
       IN  IF pc # "mapping"
           THEN /\ item' = item1
                /\ log' = log1
                /\ UNCHANGED <<pc, stepIdx, values, queue, inFlight, samples, report>>
           ELSE /\ item' = item2
                /\ values' = values1
                /\ queue' = IF drain THEN SubSeq(queue, 1, Len(queue) - 1) ELSE queue
                /\ inFlight' = IF drain THEN inFlight ELSE inFlight - 1
                /\ IF TotalResolved(item2) >= repeats
                   THEN /\ samples' = Append(samples, cycleResult)
                        /\ report' = ObjectAssign(report, steps[stepIdx], parsedResult)
                        /\ IF stepIdx < Len(steps)
                           THEN /\ log' = Append(log2, Ev("call", "setConfiguration",
                                                          steps[stepIdx + 1]))
                                /\ stepIdx' = stepIdx + 1
                                /\ pc' = "setting"
                           ELSE /\ log' = log2 \o FinallyEvents(originalMemorySize)
                                /\ pc' = "restoring"
                                /\ UNCHANGED stepIdx
                   ELSE /\ log' = log1
                        /\ UNCHANGED <<pc, stepIdx, samples, report>>
    /\ UNCHANGED <<config, originalMemorySize, sweepError, outcome>>

\* a timed invocation rejected: a pending map rejects at once, whatever is
\* still in flight, and the finally handler runs
InvokeRejected(i) ==
    /\ item[i] = "inflight"
    /\ item' = [item EXCEPT ![i] = "failed"]
    /\ IF pc = "mapping"
       THEN /\ sweepError' = Err("InvocationError", Len(log) + 1)
            /\ log' = Append(log, Ev("fail", "invoke", InvokeIndex(i)))
                          \o FinallyEvents(originalMemorySize)
            /\ pc' = "restoring"
       ELSE /\ log' = Append(log, Ev("fail", "invoke", InvokeIndex(i)))
            /\ UNCHANGED <<pc, sweepError>>
    /\ UNCHANGED <<config, stepIdx, originalMemorySize, values, queue, inFlight,
                   samples, report, outcome>>

\* the restoring updateFunctionConfiguration resolved: run() settles the way
\* the reduce did
RestoreResolved ==
    /\ pc = "restoring"
    /\ log' = Append(log, Ev("ret", "setConfiguration", originalMemorySize))
    /\ outcome' = IF sweepError = NoError
                  THEN [status |-> "fulfilled", error |-> NoError]
                  ELSE [status |-> "rejected", error |-> sweepError]
    /\ pc' = "done"
    /\ UNCHANGED <<config, stepIdx, originalMemorySize, item, values, queue,
                   inFlight, samples, report, sweepError>>

\* the restoring updateFunctionConfiguration rejected: run() rejects with the
\* reason of the promise the finally handler returned
RestoreRejected ==
    /\ pc = "restoring"
    /\ log' = Append(log, Ev("fail", "setConfiguration", originalMemorySize))
    /\ outcome' = [status |-> "rejected",
                   error |-> Err("ConfigurationUpdateError", Len(log) + 1)]
    /\ pc' = "done"
    /\ UNCHANGED <<config, stepIdx, originalMemorySize, item, values, queue,
                   inFlight, samples, report, sweepError>>

Next ==
    \/ Run
    \/ \E memorySize \in OriginalSizes : GetResolved(memorySize)
    \/ GetRejected
    \/ SetResolved
    \/ SetRejected
    \/ \E duration \in Durations \cup {NULL} : WarmupResolved(duration)
    \/ WarmupRejected
    \/ CycleDelayElapsed
    \/ \E i \in Keys(repeats) : MapperDelayElapsed(i)
    \/ \E i \in Keys(repeats), duration \in Durations \cup {NULL} : InvokeResolved(i, duration)
    \/ \E i \in Keys(repeats) : InvokeRejected(i)
    \/ RestoreResolved
    \/ RestoreRejected

Spec == Init /\ [][Next]_vars

\* every adapter call settles and every timer fires
FairSpec == Spec /\ WF_vars(Next)

----------------------------------------------------------------------------
(* Reading the log.                                                         *)

IsEv(e, k, n) == e.k = k /\ e.n = n

\* the memory sizes of the setConfiguration calls, in the order of the calls
SetCallValues ==
    LET calls == SelectSeq(log, LAMBDA e : IsEv(e, "call", "setConfiguration"))
    IN  [j \in 1 .. Len(calls) |-> calls[j].a]

\* the step during which position p of the log was written: the number of
\* 'step' events up to p
StepOf(p) == Cardinality({q \in 1 .. p : IsEv(log[q], "emit", "step")})

StepEmitted(k) == StepOf(Len(log)) >= k

\* how often invocation idx was dispatched during step k
InvokeCallsIn(k, idx) ==
    Cardinality({p \in DOMAIN log : log[p] = Ev("call", "invoke", idx) /\ StepOf(p) = k})

InvokeFailed == \E p \in DOMAIN log : IsEv(log[p], "fail", "invoke")

Finalizing == pc \in {"restoring", "done"}

----------------------------------------------------------------------------
(* C1: when getConfiguration succeeded, the setConfiguration calls of a run *)
(* are those of the steps reached so far, in sweep order, followed, as soon *)
(* as the sweep has ended (after its last step or after its first fatal     *)
(* failure), by exactly one restoring call with the value fetched at the    *)
(* start; no restoring call is issued earlier and none is issued twice.     *)
C1_RestoreExactlyOnce ==
    originalMemorySize # 0 =>
        SetCallValues = SubSeq(steps, 1, stepIdx)
                            \o (IF Finalizing THEN <<originalMemorySize>> ELSE <<>>)

\* a sweep aborted by a failed invocation in its second step has settled
C1_Witness ==
    /\ pc = "done"
    /\ sweepError.kind = "InvocationError"
    /\ stepIdx = 2
    /\ SetCallValues = steps \o <<originalMemorySize>>

(* C2: at no instant are more than `concurrency` invocations of the adapter *)
(* in flight (dispatched and not completed).                                *)
C2_BoundedInFlight == InFlightInvocations <= concurrency

\* two invocations in flight under concurrency 2 while a key waits in the queue
C2_Witness ==
    /\ concurrency = 2
    /\ InFlightInvocations = 2
    /\ queue # <<>>

(* C3: in a cycle no index is dispatched twice and no index outside         *)
(* 1..repeats is dispatched by the timed cycle, and once a step has begun,  *)
(* either an invocation fails or every index 1..repeats of that step has    *)
(* been dispatched exactly once.                                            *)
C3_EachIndexInvokedOnce ==
    /\ [](\A p \in DOMAIN log :
            IsEv(log[p], "call", "invoke") =>
                /\ log[p].a \in (IF DoesWarmup THEN 0 ELSE 1) .. repeats
                /\ InvokeCallsIn(StepOf(p), log[p].a) = 1)
    /\ \A k \in 1 .. MaxSteps :
            StepEmitted(k) ~>
                (InvokeFailed \/ \A idx \in 1 .. repeats : InvokeCallsIn(k, idx) = 1)

\* a cycle of three invocations under concurrency 2 completed without failure
C3_Witness ==
    /\ repeats = 3
    /\ concurrency = 2
    /\ Len(samples) = 1
    /\ ~InvokeFailed
    /\ \A idx \in 1 .. repeats : InvokeCallsIn(1, idx) = 1

----------------------------------------------------------------------------
(* More of the log: the part written during one step.                       *)

\* the position of the 'step' event of step k, and the last position of step k
StepPos(k) == CHOOSE p \in DOMAIN log : IsEv(log[p], "emit", "step") /\ StepOf(p) = k
StepEnd(k) == IF StepEmitted(k + 1) THEN StepPos(k + 1) - 1 ELSE Len(log)
LogOfStep(k) == SubSeq(log, StepPos(k), StepEnd(k))

\* the 'invoke' events of step k
InvokeEventsOf(k) == SelectSeq(LogOfStep(k), LAMBDA e : IsEv(e, "emit", "invoke"))

\* the timers, dispatches and completions of invocations during step k, each
\* reduced to its kind and its argument (milliseconds or index)
PacingOf(k) ==
    LET evs == SelectSeq(LogOfStep(k),
                   LAMBDA e : e.k = "delay" \/ IsEv(e, "call", "invoke")
                                            \/ IsEv(e, "ret", "invoke"))
    IN  [j \in 1 .. Len(evs) |-> <<evs[j].k, evs[j].a>>]

\* delay, dispatch, completion for each index 0..count in turn
PacedInOrder(count) ==
    [j \in 1 .. 3 * (count + 1) |->
        LET idx == (j - 1) \div 3
        IN  CASE (j - 1) % 3 = 0 -> <<"delay", delay>>
              [] (j - 1) % 3 = 1 -> <<"call", idx>>
              [] OTHER           -> <<"ret", idx>>]

\* an error that is E or wraps E
Carries(err, E) == err = E \/ ("cause" \in DOMAIN err /\ err.cause = E)

----------------------------------------------------------------------------
(* C4: after a failed invocation no later step executes: no                 *)
(* setConfiguration other than the restore is issued, no 'step' and no      *)
(* 'result' event is emitted, every later dispatch belongs to the same      *)
(* step, and run() ends by failing with that first error.                   *)
C4_FailureStopsSweep ==
    \A p \in DOMAIN log :
        (IsEv(log[p], "fail", "invoke") /\ sweepError = Err("InvocationError", p)) =>
            /\ \A q \in (p + 1) .. Len(log) :
                    /\ ~IsEv(log[q], "emit", "step")
                    /\ ~IsEv(log[q], "emit", "result")
                    /\ IsEv(log[q], "call", "setConfiguration") => q = p + 2
            /\ pc = "done" =>
                    outcome = [status |-> "rejected", error |-> sweepError]

(* C5: the sample handed to the reducer for a step holds exactly the        *)
(* non-null durations of that step's timed invocations: no null is in it.   *)
C5_SampleWithoutNulls ==
    \A k \in DOMAIN samples :
        /\ \A j \in DOMAIN samples[k] : samples[k][j] # NULL
        /\ Len(samples[k]) =
               Len(SelectSeq(InvokeEventsOf(k), LAMBDA e : e.a # NULL))

(* C6: when every timed invocation of a cycle returned null, no 'result'    *)
(* event and no report exist for that step and the run, once ended, has     *)
(* failed with NoMeasurableInvocationsError.                                *)
C6_AllNullCycleFails ==
    \A k \in 1 .. MaxSteps :
        (/\ StepEmitted(k)
         /\ Len(InvokeEventsOf(k)) = repeats
         /\ \A j \in 1 .. repeats : InvokeEventsOf(k)[j].a = NULL) =>
            /\ Len(samples) < k
            /\ \A p \in DOMAIN log : log[p] # Ev("emit", "result", k)
            /\ pc = "done" =>
                    /\ outcome.status = "rejected"
                    /\ outcome.error.kind = "NoMeasurableInvocationsError"

(* C7: with concurrency 1 and warm-up, a failure-free cycle consists of     *)
(* the invocations 0, 1, ..., repeats in this order, each completed before  *)
(* the next is dispatched and each preceded by a pacing delay of `delay`.   *)
C7_PacedIndexOrder ==
    \A k \in DOMAIN samples :
        (concurrency = 1 /\ warmup) => PacingOf(k) = PacedInOrder(repeats)

(* C8: with concurrency above 1 there is no invocation 0, no 'warmup'       *)
(* event and no pacing delay at all.                                        *)
C8_NoWarmupNoPacing ==
    concurrency > 1 =>
        \A p \in DOMAIN log :
            /\ log[p] # Ev("call", "invoke", 0)
            /\ ~IsEv(log[p], "emit", "warmup")
            /\ log[p].k = "delay" => log[p].a = 0

(* C9: 'finish' is emitted once per run that fetched the configuration, and *)
(* only after the restoring setConfiguration call has been performed.       *)
C9_FinishAfterRestore ==
    /\ Len(SelectSeq(log, LAMBDA e : IsEv(e, "emit", "finish"))) <= 1
    /\ (originalMemorySize # 0 /\ pc = "done") =>
            \E p \in DOMAIN log : IsEv(log[p], "emit", "finish")
    /\ \A p \in DOMAIN log :
            IsEv(log[p], "emit", "finish") =>
                /\ \E q \in 1 .. (p - 1) :
                        /\ log[q].n = "setConfiguration"
                        /\ log[q].k \in {"ret", "fail"}
                        /\ Len(SelectSeq(SubSeq(log, 1, q),
                                 LAMBDA e : IsEv(e, "call", "setConfiguration")))
                               = stepIdx + 1
                /\ \A q \in (p + 1) .. Len(log) :
                        ~IsEv(log[q], "call", "setConfiguration")

(* C10: when the sweep aborted with E and the restore failed too, the error *)
(* run() ends with still carries E.                                         *)
C10_OriginalErrorKept ==
    (pc = "done" /\ sweepError # NoError) => Carries(outcome.error, sweepError)

----------------------------------------------------------------------------
(* Counting in the log.                                                     *)

\* the events of kind k and name n before position p
CountBefore(p, k, n) == Cardinality({q \in 1 .. (p - 1) : IsEv(log[q], k, n)})

\* the invocations dispatched and not completed when position p was written
InFlightAt(p) ==
    CountBefore(p, "call", "invoke")
        - CountBefore(p, "ret", "invoke") - CountBefore(p, "fail", "invoke")

\* the events of kind k and name n written during step j
CountInStep(j, k, n) == Len(SelectSeq(LogOfStep(j), LAMBDA e : IsEv(e, k, n)))

\* the invocations one failure-free cycle performs
CycleInvocations == repeats + (IF DoesWarmup THEN 1 ELSE 0)

(* C11: steps run one after the other in sweep order.  When 'step' k is     *)
(* emitted exactly k setConfiguration calls were issued, with the first k   *)
(* values of the sweep, and the last has just completed; no invocation is   *)
(* dispatched before the first 'step'; the setConfiguration of a step is    *)
(* issued while no invocation is in flight and, for a step after the first, *)
(* after every invocation of the step before was dispatched and completed   *)
(* during that step, so that no two cycles are ever active together.        *)
C11_StepsSequential ==
    \A p \in DOMAIN log :
        /\ IsEv(log[p], "call", "invoke") => StepOf(p) >= 1
        /\ IsEv(log[p], "emit", "step") =>
            LET k == StepOf(p)
                calls == SelectSeq(SubSeq(log, 1, p),
                                   LAMBDA e : IsEv(e, "call", "setConfiguration"))
            IN  /\ [j \in 1 .. Len(calls) |-> calls[j].a] = SubSeq(steps, 1, k)
                /\ log[p - 1] = Ev("ret", "setConfiguration", steps[k])
                /\ log[p].a = steps[k]
        /\ (IsEv(log[p], "call", "setConfiguration")
                /\ CountBefore(p, "call", "setConfiguration") < stepIdx) =>
            LET j == CountBefore(p, "call", "setConfiguration")
            IN  /\ InFlightAt(p) = 0
                /\ StepOf(p) = j
                /\ j >= 1 =>
                    /\ CountInStep(j, "call", "invoke") = CycleInvocations
                    /\ CountInStep(j, "ret", "invoke") = CycleInvocations

\* the second step of a sweep has two invocations in flight
C11_Witness ==
    /\ stepIdx = 2
    /\ pc = "mapping"
    /\ InFlightInvocations = 2
    /\ SetCallValues = steps

----------------------------------------------------------------------------
\* the events emitted so far, the 'warmup' events left out
Emitted == SelectSeq(log, LAMBDA e : e.k = "emit" /\ e.n # "warmup")

\* start, then per step: step, `repeats` times invoke, result; then finish
StreamShape(j) ==
    LET width == repeats + 2
        off   == (j - 2) % width
        k     == ((j - 2) \div width) + 1
    IN  CASE j = 1                          -> <<"start", originalMemorySize>>
          [] j = 2 + Len(steps) * width     -> <<"finish", 0>>
          [] off = 0                        -> <<"step", steps[k]>>
          [] off = width - 1                -> <<"result", k>>
          [] OTHER                          -> <<"invoke">>

(* C12: a run that succeeded has emitted start(original), then for each     *)
(* step in sweep order step(value), exactly `repeats` invoke events and     *)
(* result, then finish; each 'step' directly follows the completion of its  *)
(* setConfiguration and precedes every dispatch of its cycle, and each      *)
(* 'result' follows the completion of all invocations of its step, the      *)
(* warm-up included, which itself emits no 'invoke'.                        *)
C12_EventStreamShape ==
    (pc = "done" /\ outcome.status = "fulfilled") =>
        /\ Len(Emitted) = 2 + Len(steps) * (repeats + 2)
        /\ \A j \in DOMAIN Emitted :
                IF StreamShape(j) = <<"invoke">>
                THEN Emitted[j].n = "invoke"
                ELSE <<Emitted[j].n, Emitted[j].a>> = StreamShape(j)
        /\ \A p \in DOMAIN log :
                /\ IsEv(log[p], "emit", "step") =>
                        /\ log[p - 1] = Ev("ret", "setConfiguration", log[p].a)
                        /\ CountBefore(p, "call", "invoke")
                               = (StepOf(p) - 1) * CycleInvocations
                /\ IsEv(log[p], "emit", "result") =>
                        /\ InFlightAt(p) = 0
                        /\ CountBefore(p, "ret", "invoke")
                               = StepOf(p) * CycleInvocations

\* a sweep of two steps with warm-up and two invocations each has succeeded
C12_Witness ==
    /\ pc = "done"
    /\ outcome.status = "fulfilled"
    /\ Len(steps) = 2
    /\ repeats = 2
    /\ DoesWarmup
    /\ Len(Emitted) = 10

----------------------------------------------------------------------------
\* the position at which event e was first written
PosOf(e) == CHOOSE p \in DOMAIN log : log[p] = e /\ \A q \in 1 .. (p - 1) : log[q] # e

(* C13: every timed invocation that resolved is followed at once, before    *)
(* any other completion, by one 'invoke' event, and 'invoke' is emitted for *)
(* nothing else (not for the warm-up, not for a failure); the event carries *)
(* the value the map recorded for that very index.  The events are thus in  *)
(* completion order.                                                        *)
C13_InvokeEventPerCompletion ==
    \A p \in DOMAIN log :
        /\ (IsEv(log[p], "ret", "invoke") /\ log[p].a >= 1) =>
            /\ p < Len(log)
            /\ IsEv(log[p + 1], "emit", "invoke")
            /\ StepOf(p) \in DOMAIN samples =>
                    log[p + 1].a = samples[StepOf(p)][log[p].a]
            /\ (pc = "mapping" /\ StepOf(p) = stepIdx) =>
                    log[p + 1].a = values[log[p].a - 1]
        /\ IsEv(log[p], "emit", "invoke") =>
            /\ p > 1
            /\ IsEv(log[p - 1], "ret", "invoke")
            /\ log[p - 1].a >= 1

\* invocation 1 was dispatched before invocation 2 and completed after it, and
\* the events carry 100 (of invocation 2) first and null (of invocation 1) next
C13_Witness ==
    /\ repeats = 2
    /\ samples = <<(<<NULL, 100>>)>>
    /\ PosOf(Ev("call", "invoke", 1)) < PosOf(Ev("call", "invoke", 2))
    /\ PosOf(Ev("ret", "invoke", 2)) < PosOf(Ev("ret", "invoke", 1))
    /\ [j \in 1 .. 2 |-> InvokeEventsOf(1)[j].a] = <<100, NULL>>

----------------------------------------------------------------------------
(* The reduction on its own: _parseCycleResult applied to a cycle result of *)
(* integer durations, as the handler of run() applies it (lines 120-125),   *)
(* and applied again after the durations came in another order.             *)

SampleSeqs == SeqsUpTo(SampleValues, MaxSamples) \ {<<>>}

StatsInit ==
    /\ steps = <<128>>
    /\ samples \in {<<S>> : S \in SampleSeqs}
    /\ repeats = Len(samples[1])
    /\ concurrency = 1
    /\ warmup = FALSE
    /\ delay = 0
    /\ pc = "sampled"
    /\ stepIdx = 1
    /\ originalMemorySize = 0
    /\ item = [i \in Keys(repeats) |-> "done"]
    /\ values = [i \in Keys(repeats) |-> samples[1][i + 1]]
    /\ queue = <<>>
    /\ inFlight = 0
    /\ report = <<>>
    /\ sweepError = NoError
    /\ outcome = [status |-> "pending", error |-> NoError]
    /\ log = <<>>

\* const parsedResult = Runner._parseCycleResult(cycleResult);
\* Object.assign(report, { [memoryStep]: parsedResult })
StatsReduce ==
    /\ pc = "sampled"
    /\ report' = ObjectAssign(report, steps[stepIdx], _parseCycleResult(samples[1]))
    /\ pc' = "reduced"
    /\ UNCHANGED <<config, stepIdx, originalMemorySize, item, values, queue,
                   inFlight, samples, sweepError, outcome, log>>

\* the same durations with two neighbours exchanged, to be reduced again
StatsPermute(j) ==
    /\ pc = "reduced"
    /\ samples[1][j] # samples[1][j + 1]
    /\ samples' = <<[samples[1] EXCEPT ![j] = samples[1][j + 1],
                                       ![j + 1] = samples[1][j]]>>
    /\ values' = [i \in Keys(repeats) |-> samples'[1][i + 1]]
    /\ pc' = "sampled"
    /\ UNCHANGED <<config, stepIdx, originalMemorySize, item, queue, inFlight,
                   report, sweepError, outcome, log>>

StatsNext ==
    \/ StatsReduce
    \/ \E j \in 1 .. (MaxSamples - 1) : j < repeats /\ StatsPermute(j)

StatsSpec == StatsInit /\ [][StatsNext]_vars

Range(s) == {s[j] : j \in DOMAIN s}

RECURSIVE Total(_)
Total(S) == IF S = {} THEN 0
            ELSE LET j == CHOOSE j \in S : TRUE IN samples[1][j] + Total(S \ {j})

(* C14: for a non-empty sample of integer durations the report has as min   *)
(* the least and as max the greatest element of the sample, as avg the      *)
(* integer a with a - 1/2 <= sum/count < a + 1/2 (rounded once, half up),   *)
(* and min <= avg <= max.                                                   *)
C14_MinAvgMax ==
    pc = "reduced" =>
        LET S   == samples[1]
            r   == report[steps[stepIdx]]
            n   == Len(S)
            sum == Total(DOMAIN S)
        IN  /\ r.min \in Range(S) /\ \A x \in Range(S) : r.min <= x
            /\ r.max \in Range(S) /\ \A x \in Range(S) : x <= r.max
            /\ 2 * n * r.avg <= 2 * sum + n
            /\ 2 * sum + n < 2 * n * (r.avg + 1)
            /\ r.min <= r.avg /\ r.avg <= r.max

\* the sample <<1, 2>>, whose mean 1.5 rounds up to 2, has been reduced
C14_Witness ==
    /\ pc = "reduced"
    /\ samples[1] = <<1, 2>>
    /\ report[128].min = 1 /\ report[128].avg = 2 /\ report[128].max = 2

(* C15: in the report of a non-empty sample the percentiles do not decrease *)
(* with the rank, each lies between min and max, and reducing the same      *)
(* durations in another order gives the same report.                        *)
C15_PercentilesMonotoneAndOrderFree ==
    /\ [](pc = "reduced" =>
            LET r == report[steps[stepIdx]]
            IN  /\ \A j1, j2 \in DOMAIN PERCENTILES :
                        j1 < j2 => r.percentiles[j1] <= r.percentiles[j2]
                /\ \A j \in DOMAIN PERCENTILES :
                        r.min <= r.percentiles[j] /\ r.percentiles[j] <= r.max)
    /\ [][(pc = "sampled" /\ pc' = "reduced" /\ report # <<>>) => report' = report]_vars

\* an unsorted sample of four distinct durations has been reduced
C15_Witness ==
    /\ pc = "reduced"
    /\ samples[1] = <<5, 0, 2, 1>>
    /\ report[128].percentiles[1] = 1
    /\ report[128].percentiles[2] = 2
    /\ report[128].percentiles[8] = 5

----------------------------------------------------------------------------
\* s without the later occurrences of a value
RECURSIVE FirstOccurrences(_)
FirstOccurrences(s) ==
    IF s = <<>> THEN <<>>
    ELSE LET front == FirstOccurrences(SubSeq(s, 1, Len(s) - 1))
             last  == s[Len(s)]
         IN  IF last \in Range(front) THEN front ELSE Append(front, last)

\* the last step of the sweep that ran with memory size m
LastStepWith(m) == CHOOSE k \in DOMAIN steps :
                        steps[k] = m /\ \A j \in DOMAIN steps : steps[j] = m => j <= k

(* C16: the report of a successful run has one entry per step value, the    *)
(* entry being the report of that step's cycle, and enumerates its entries  *)
(* in sweep order.                                                          *)
C16_ReportInSweepOrder ==
    (pc = "done" /\ outcome.status = "fulfilled") =>
        /\ DOMAIN report = Range(steps)
        /\ \A m \in DOMAIN report :
                report[m] = _parseCycleResult(samples[LastStepWith(m)])
        /\ ObjectKeys(report) = FirstOccurrences(steps)

(* C17: when the setConfiguration of step k fails, no 'step' event of step  *)
(* k and no 'warmup' is emitted, no invocation is dispatched afterwards, no *)
(* later step is attempted, the restore of the original configuration is    *)
(* issued at once, and run() ends by failing.                               *)
C17_SetFailureStopsSweep ==
    \A p \in DOMAIN log :
        (IsEv(log[p], "fail", "setConfiguration")
                /\ sweepError = Err("ConfigurationUpdateError", p)) =>
            /\ StepOf(Len(log)) = stepIdx - 1
            /\ \A q \in (p + 1) .. Len(log) :
                    /\ ~IsEv(log[q], "call", "invoke")
                    /\ ~IsEv(log[q], "emit", "step")
                    /\ ~IsEv(log[q], "emit", "warmup")
                    /\ ~IsEv(log[q], "emit", "result")
            /\ InFlightAt(p) = 0
            /\ SetCallValues = SubSeq(steps, 1, stepIdx) \o <<originalMemorySize>>
            /\ log[p + 2] = Ev("call", "setConfiguration", originalMemorySize)
            /\ pc = "done" => outcome.status = "rejected"

\* the setConfiguration of the second step failed and the run has ended
C17_Witness ==
    /\ pc = "done"
    /\ stepIdx = 2
    /\ sweepError.kind = "ConfigurationUpdateError"
    /\ outcome.status = "rejected"
    /\ Len(samples) = 1

(* C18: once an invocation has failed, no invocation is dispatched any      *)
(* more in that cycle.                                                      *)
C18_NoDispatchAfterFailure ==
    \A p \in DOMAIN log :
        IsEv(log[p], "fail", "invoke") =>
            \A q \in (p + 1) .. Len(log) : ~IsEv(log[q], "call", "invoke")

(* C19: no setConfiguration call, of a step or of the restore, is issued    *)
(* while an invocation is in flight, and no 'invoke' event follows          *)
(* 'finish'.                                                                *)
C19_ConfigurationHeldDuringInvocations ==
    \A p \in DOMAIN log :
        /\ IsEv(log[p], "call", "setConfiguration") => InFlightAt(p) = 0
        /\ IsEv(log[p], "emit", "finish") =>
                \A q \in (p + 1) .. Len(log) : ~IsEv(log[q], "emit", "invoke")

\* the restoring call has been issued and has completed
RestorePerformed ==
    /\ SetCallValues # <<>>
    /\ SetCallValues[Len(SetCallValues)] = originalMemorySize
    /\ log[Len(log)].n = "setConfiguration" \/ pc = "done"
    /\ \E p \in DOMAIN log :
            /\ log[p].n = "setConfiguration"
            /\ log[p].k \in {"ret", "fail"}
            /\ CountBefore(p, "call", "setConfiguration") = Len(SetCallValues)

(* C20: when every adapter call settles and every timer fires, run()        *)
(* eventually ends, fulfilled or rejected with an error, and a run that     *)
(* fetched the original configuration never ends before the restoring call  *)
(* was issued and has settled.                                              *)
C20_RunTerminates ==
    /\ <>(pc = "done")
    /\ [](pc = "done" <=> outcome.status # "pending")
    /\ [](pc = "done" =>
            /\ outcome.status \in {"fulfilled", "rejected"}
            /\ (outcome.status = "rejected") = (outcome.error # NoError)
            /\ originalMemorySize # 0 =>
                    /\ RestorePerformed
                    /\ Len(SetCallValues) = stepIdx + 1)

\* a sweep of two steps under concurrency 2 has been fulfilled
C20_Witness ==
    /\ pc = "done"
    /\ outcome.status = "fulfilled"
    /\ Len(steps) = 2
    /\ concurrency = 2
    /\ Len(samples) = 2
    /\ RestorePerformed

====
